---- MODULE Spec2Model ----
(***************************************************************************)
(* Model of the posting bot's admission and failure tracking               *)
(* (src/src/poster.py, src/src/main.py).                                   *)
(*                                                                         *)
(* Time is counted in whole hours since an arbitrary local midnight        *)
(* (datetime.now()); a calendar day (date.today()) is a block of 24 hours. *)
(* The clock is observed at the instants of TimeGrid only: midnight and    *)
(* one o'clock of every day, so that an instant 1 hour, 23, 24 and 25      *)
(* hours after another one exists.                                         *)
(* Rates are percentages (1.0 -> 100, 0.8 -> 80, 0.5 -> 50).               *)
(* The JSON documents are records; a document that is not on disk has      *)
(* exists = FALSE and the contents the code substitutes for it.            *)
(***************************************************************************)
EXTENDS Integers, Sequences, FiniteSets, TLC

\* ---------------------------------------------------------------- bounds
MaxDay == 1            \* the clock stops at one o'clock of this day
MaxErrCalls == 4       \* record_error calls in one behaviour of TrackerSpec
MaxRuns == 4           \* invocations in one behaviour of Spec
MaxFaults == 1         \* invocations that raise in one behaviour of Spec
MaxProducts == 2       \* rows with a URL the sheet can hold
MaxPostsArg == 3       \* largest --max-posts given on the command line
MaxDailyRuns == 102    \* days in one behaviour of DailySpec
MaxLogLen == 3         \* executions in a log the reading operations are given
MaxScheduledRuns == 10 \* invocations in one behaviour of ScheduledSpec
MaxWorksheets == 2     \* worksheets of the spreadsheet
MaxSheetRows == 2      \* rows below the header of one worksheet

\* ------------------------------------------------------- program constants
HoursPerDay == 24
max_consecutive_errors == 3
suspension_hours == 24
success_threshold == 80
poster_daily_limit == 1
cli_limit_cap == 3
last_errors_cap == 10
executions_cap == 100

week_days == 7                   \* calculate_success_rate(days_back=7); timedelta(days=7)
month_days == 30                 \* timedelta(days=30)
success_rate_warning == 70       \* health_thresholds, percent
success_rate_critical == 50
consecutive_errors_warning == 2
consecutive_errors_critical == 3
trend_improving_above == 80      \* weekly_rate > 0.8, percent
trend_degrading_below == 60      \* weekly_rate < 0.6
report_trend_margin == 10        \* month_rate +/- 0.1
report_low_week_rate == 70       \* week_rate < 0.7
NoSuspension == -1     \* error_tracking.json has no "suspended_until" key
NoTime == -1           \* a None timestamp

Days == 0 .. MaxDay
Today(t) == t \div HoursPerDay
TimeGrid == {HoursPerDay * d + h : d \in Days, h \in {0, 1}}

Min(a, b) == IF a <= b THEN a ELSE b

VARIABLES
    env,          \* DRY_RUN, GRADUAL_MODE and the poster's success_threshold
    now,          \* datetime.now(), hours
    stats,        \* daily_stats.json: day -> record
    errFile,      \* error_tracking.json
    metricsFile,  \* performance_metrics.json
    inv,          \* the running (or last finished) invocation's locals
    livePosts,    \* history: day -> live actions that succeeded on that day
    runs,         \* history: invocations started
    faults,       \* history: invocations that ended in main()'s except block
    failCalls,    \* history: record_error calls since the last record_success
    lastCall,     \* history: the Failure Tracker call just made at this instant
    other,        \* the locals of a second process running main.py at the same time
    out,          \* history: what the reading operation just called returned
    sh            \* the spreadsheet: its worksheets and their rows below the header

vars == <<env, now, stats, errFile, metricsFile, inv, livePosts, runs, faults, failCalls, lastCall, other, out, sh>>

\* ------------------------------------------------------------- documents
NoErrFile ==
    [exists |-> FALSE, consecutive_errors |-> 0, last_errors |-> <<>>,
     suspended_until |-> NoSuspension]

NoMetricsFile == [exists |-> FALSE, executions |-> <<>>]

NoDayRecord == [present |-> FALSE, posts |-> 0, last_post |-> NoTime]

LastN(s, n) == IF Len(s) <= n THEN s ELSE SubSeq(s, Len(s) - n + 1, Len(s))

\* --------------------------------------------------------- Quota Tracker
get_daily_stats_unread(st, t) == NoDayRecord

get_daily_stats(st, t) ==
    IF st[Today(t)].present THEN st[Today(t)] ELSE NoDayRecord

update_daily_stats_no_write(st, t, posts_count) == st

update_daily_stats(st, t, posts_count) ==
    [st EXCEPT ![Today(t)] =
        [present |-> TRUE, posts |-> posts_count, last_post |-> t]]

\* ------------------------------------------------------- Failure Tracker
check_suspension_status_reversed(ef, t) ==
    /\ ef.exists
    /\ ef.suspended_until # NoSuspension
    /\ t > ef.suspended_until

check_suspension_status_le(ef, t) ==
    /\ ef.exists
    /\ ef.suspended_until # NoSuspension
    /\ t <= ef.suspended_until

check_suspension_status(ef, t) ==
    /\ ef.exists
    /\ ef.suspended_until # NoSuspension
    /\ t < ef.suspended_until

record_error_keep_oldest(ef, t, error_type) ==
    LET n == ef.consecutive_errors + 1
        all == Append(ef.last_errors, [timestamp |-> t, type |-> error_type])
    IN  [exists |-> TRUE,
         consecutive_errors |-> n,
         last_errors |-> SubSeq(all, 1, Min(Len(all), last_errors_cap)),
         suspended_until |->
            IF n >= max_consecutive_errors
            THEN t + suspension_hours
            ELSE ef.suspended_until]

record_error(ef, t, error_type) ==
    LET n == ef.consecutive_errors + 1
    IN  [exists |-> TRUE,
         consecutive_errors |-> n,
         last_errors |->
            LastN(Append(ef.last_errors, [timestamp |-> t, type |-> error_type]),
                  last_errors_cap),
         suspended_until |->
            IF n >= max_consecutive_errors
            THEN t + suspension_hours
            ELSE ef.suspended_until]

record_success_keep_suspension(ef) ==
    IF ef.exists
    THEN [ef EXCEPT !.consecutive_errors = 0]
    ELSE ef

record_success_reset_if_suspended(ef) ==
    IF ef.exists /\ ef.suspended_until # NoSuspension
    THEN [ef EXCEPT !.consecutive_errors = 0, !.suspended_until = NoSuspension]
    ELSE ef

record_success(ef) ==
    IF ef.exists
    THEN [ef EXCEPT !.consecutive_errors = 0, !.suspended_until = NoSuspension]
    ELSE ef

\* A suspension window is open: suspendedUntil is set and in the future.
SuspensionActive ==
    errFile.suspended_until # NoSuspension /\ now < errFile.suspended_until

\* The history kept beside a Failure Tracker call.
NoCall ==
    [op |-> "none", countBefore |-> 0, untilBefore |-> NoSuspension,
     result |-> FALSE]

CallRecordError(error_type) ==
    /\ errFile' = record_error(errFile, now, error_type)
    /\ failCalls' = failCalls + 1
    /\ lastCall' = [op |-> "record_error",
                    countBefore |-> errFile.consecutive_errors,
                    untilBefore |-> errFile.suspended_until,
                    result |-> FALSE]

CallRecordSuccess ==
    /\ errFile' = record_success(errFile)
    /\ failCalls' = 0
    /\ lastCall' = [op |-> "record_success",
                    countBefore |-> errFile.consecutive_errors,
                    untilBefore |-> errFile.suspended_until,
                    result |-> FALSE]

\* --------------------------------------------------------- Metrics Recorder
record_execution_metrics_dropped(mf, t, success, posted_count, target_count, mode) ==
    [mf EXCEPT !.exists = TRUE]

record_execution_metrics_keep_oldest(mf, t, success, posted_count, target_count, mode) ==
    LET all == Append(mf.executions,
                      [timestamp |-> t, success |-> success,
                       posted_count |-> posted_count,
                       target_count |-> target_count, mode |-> mode])
    IN  [exists |-> TRUE,
         executions |-> SubSeq(all, 1, Min(Len(all), executions_cap))]

\* The summary block of performance_metrics.json is recomputed from the
\* executions at every write and read by nothing; it is not kept here.
record_execution_metrics(mf, t, success, posted_count, target_count, mode) ==
    [exists |-> TRUE,
     executions |->
        LastN(Append(mf.executions,
                     [timestamp |-> t, success |-> success,
                      posted_count |-> posted_count,
                      target_count |-> target_count, mode |-> mode]),
              executions_cap)]

current_rate_two_buckets(ef) ==
    LET consecutive_errors == IF ef.exists THEN ef.consecutive_errors ELSE 0
    IN  IF consecutive_errors = 0 THEN 100 ELSE 80

current_rate_low_middle(ef) ==
    LET consecutive_errors == IF ef.exists THEN ef.consecutive_errors ELSE 0
    IN  IF consecutive_errors = 0 THEN 100
        ELSE IF consecutive_errors <= 2 THEN 70
        ELSE 50

\* calculate_success_rate()['current_rate'], in percent
current_rate(ef) ==
    LET consecutive_errors == IF ef.exists THEN ef.consecutive_errors ELSE 0
    IN  IF consecutive_errors = 0 THEN 100
        ELSE IF consecutive_errors <= 2 THEN 80
        ELSE 50

\* ------------------------------------------------------------------ rates
\* A rate n / d of Python is kept as the exact fraction; d = 0 is the
\* ZeroDivisionError that n / 0 raises.  The logs looked at are short enough
\* for no quotient to fall within rounding distance of a threshold.
Divide(n, d) == [n |-> n, d |-> d]

\* r > pct / 100 and r < pct / 100
RateAbove(r, pct) == 100 * r.n > pct * r.d
RateBelow(r, pct) == 100 * r.n < pct * r.d

\* a > b + pct / 100 and a < b - pct / 100
RateAboveBy(a, b, pct) == 100 * a.n * b.d > 100 * b.n * a.d + pct * a.d * b.d
RateBelowBy(a, b, pct) == 100 * a.n * b.d < 100 * b.n * a.d - pct * a.d * b.d

\* [e for e in executions if fromisoformat(e['timestamp']) > cutoff]
ExecutionsAfter(executions, cutoff) ==
    SelectSeq(executions, LAMBDA e : e.timestamp > cutoff)

ExecutionsFrom(executions, cutoff) ==
    SelectSeq(executions, LAMBDA e : e.timestamp >= cutoff)

\* sum(1 for e in executions if e['success'])
Successful(executions) == Len(SelectSeq(executions, LAMBDA e : e.success))

calculate_success_rate_trend(weekly_rate) ==
    IF RateAbove(weekly_rate, trend_improving_above) THEN "improving"
    ELSE IF RateBelow(weekly_rate, trend_degrading_below) THEN "degrading"
    ELSE "stable"

calculate_success_rate_inclusive(ef, mf, t, days_back) ==
    LET cutoff_date == t - days_back * HoursPerDay
        recent_executions ==
            IF mf.exists THEN ExecutionsFrom(mf.executions, cutoff_date) ELSE <<>>
        total_executions == Len(recent_executions)
        successful_executions == Successful(recent_executions)
        weekly_rate ==
            IF total_executions > 0
            THEN Divide(successful_executions, total_executions)
            ELSE Divide(1, 1)
    IN  [current_rate |-> current_rate(ef),
         weekly_rate |-> weekly_rate,
         trend |-> calculate_success_rate_trend(weekly_rate),
         consecutive_errors |-> IF ef.exists THEN ef.consecutive_errors ELSE 0,
         total_executions |-> total_executions,
         successful_executions |-> successful_executions]

calculate_success_rate(ef, mf, t, days_back) ==
    LET cutoff_date == t - days_back * HoursPerDay
        recent_executions ==
            IF mf.exists THEN ExecutionsAfter(mf.executions, cutoff_date) ELSE <<>>
        total_executions == Len(recent_executions)
        successful_executions == Successful(recent_executions)
        weekly_rate ==
            IF total_executions > 0
            THEN Divide(successful_executions, total_executions)
            ELSE Divide(1, 1)
    IN  [current_rate |-> current_rate(ef),
         weekly_rate |-> weekly_rate,
         trend |-> calculate_success_rate_trend(weekly_rate),
         consecutive_errors |-> IF ef.exists THEN ef.consecutive_errors ELSE 0,
         total_executions |-> total_executions,
         successful_executions |-> successful_executions]

\* --------------------------------------------------- Admission Controller
should_allow_posting_strict(ef, gradual_mode, threshold) ==
    IF ~gradual_mode THEN TRUE ELSE current_rate(ef) > threshold

should_allow_posting(ef, gradual_mode, threshold) ==
    IF ~gradual_mode THEN TRUE ELSE current_rate(ef) >= threshold

remaining_budget_floored(daily_limit, st, t) ==
    IF daily_limit - get_daily_stats(st, t).posts < 0
    THEN 0
    ELSE daily_limit - get_daily_stats(st, t).posts

\* remaining = daily_limit - daily_stats["posts"]
remaining_budget(daily_limit, st, t) == daily_limit - get_daily_stats(st, t).posts

\* the number of items get_products_to_post(max_count) returns from a sheet
\* with `rows` rows that have a URL
get_products_to_post(rows, max_count) ==
    IF max_count <= 0 THEN 0 ELSE Min(rows, max_count)

\* dry_run_mode returns len(products)
dry_run_mode(products) == products

execution_mode(dry_run, gradual_mode) ==
    IF dry_run THEN "dry_run" ELSE IF gradual_mode THEN "gradual" ELSE "live"

\* the loop's guard in post_to_room: not (posts + posted_count >= daily_limit)
post_to_room_may_post(posts, posted_count, daily_limit) ==
    ~(posts + posted_count >= daily_limit)

\* --------------------------------------------------------- Health Evaluator
Alert(type, severity) == [type |-> type, severity |-> severity]

NewHealth == [status |-> "healthy", alerts |-> <<>>, warnings |-> <<>>]

\* the success-rate check
health_success_rate(health, rate) ==
    IF rate <= success_rate_critical
    THEN [health EXCEPT !.status = "critical",
                        !.alerts = Append(@, Alert("success_rate_critical", "high"))]
    ELSE IF rate <= success_rate_warning
    THEN [health EXCEPT !.status = IF @ = "healthy" THEN "warning" ELSE @,
                        !.warnings = Append(@, Alert("success_rate_warning", "medium"))]
    ELSE health

\* the consecutive-error check
health_consecutive_errors(health, consecutive_errors) ==
    IF consecutive_errors >= consecutive_errors_critical
    THEN [health EXCEPT !.status = "critical",
                        !.alerts = Append(@, Alert("consecutive_errors_critical", "high"))]
    ELSE IF consecutive_errors >= consecutive_errors_warning
    THEN [health EXCEPT !.status = IF @ = "healthy" THEN "warning" ELSE @,
                        !.warnings = Append(@, Alert("consecutive_errors_warning", "medium"))]
    ELSE health

\* the suspension check
health_suspension_below_critical(health, suspended) ==
    IF suspended
    THEN [health EXCEPT !.status = IF @ = "critical" THEN @ ELSE "suspended",
                        !.alerts = Append(@, Alert("system_suspended", "high"))]
    ELSE health

health_suspension(health, suspended) ==
    IF suspended
    THEN [health EXCEPT !.status = "suspended",
                        !.alerts = Append(@, Alert("system_suspended", "high"))]
    ELSE health

\* The health record after each of the three checks, in the order taken.
monitor_system_health_steps(ef, mf, t) ==
    LET metrics == calculate_success_rate(ef, mf, t, week_days)
        h1 == health_success_rate(NewHealth, metrics.current_rate)
        h2 == health_consecutive_errors(h1, metrics.consecutive_errors)
        h3 == health_suspension(h2, check_suspension_status(ef, t))
    IN  <<NewHealth, h1, h2, h3>>

monitor_system_health(ef, mf, t, dry_run, gradual_mode) ==
    LET metrics == calculate_success_rate(ef, mf, t, week_days)
        health == monitor_system_health_steps(ef, mf, t)[4]
    IN  [status |-> health.status,
         alerts |-> health.alerts,
         warnings |-> health.warnings,
         uptime_info |->
            [total_executions |-> metrics.total_executions,
             successful_executions |-> metrics.successful_executions],
         performance_summary |->
            [current_success_rate |-> metrics.current_rate,
             weekly_success_rate |-> metrics.weekly_rate,
             trend |-> metrics.trend,
             consecutive_errors |-> metrics.consecutive_errors,
             system_mode |-> IF dry_run THEN "dry_run" ELSE "live",
             gradual_mode |-> gradual_mode]]

\* -------------------------------------------------------------- Alert Sink
\* What create_github_alert logs; "raise" is an exception leaving it.
\* response is what requests.post does: "201", another status, or "exception".
Responses == {"201", "500", "exception"}

create_github_alert_uncaught(github_token, dry_run, response) ==
    IF ~github_token \/ dry_run THEN "GITHUB_ALERT_SKIPPED"
    ELSE IF response = "exception" THEN "raise"
    ELSE IF response = "201" THEN "GITHUB_ALERT_CREATED"
    ELSE "GITHUB_ALERT_FAILED"

create_github_alert(github_token, dry_run, response) ==
    IF ~github_token \/ dry_run THEN "GITHUB_ALERT_SKIPPED"
    ELSE IF response = "exception" THEN "GITHUB_ALERT_ERROR"
    ELSE IF response = "201" THEN "GITHUB_ALERT_CREATED"
    ELSE "GITHUB_ALERT_FAILED"

\* sent: the alerts handed to create_github_alert; logged: what each call
\* logged; raised: an exception left process_health_alerts.  The
\* system_health_<date>.json file it writes last is read by nothing.
process_health_alerts(health, github_token, dry_run, response) ==
    LET sent == SelectSeq(health.alerts, LAMBDA alert : alert.severity = "high")
        logged == [i \in 1 .. Len(sent) |->
                      create_github_alert(github_token, dry_run, response)]
    IN  [sent |-> sent,
         logged |-> logged,
         raised |-> \E i \in 1 .. Len(sent) : logged[i] = "raise"]

\* ------------------------------------------------------------------ state
\* The locals of the running (or just finished) invocation; sims, verdict,
\* suspendedAtCheck, errsAtCheck, fresh and clean are history: the items a
\* dry run simulated, the admission verdict, whether a suspension was active
\* and how many consecutive failures were stored when the invocation began,
\* whether no document existed then, whether no step failed, how main()'s
\* except block ended if it ran, and whether a read or write of a document
\* raised.
NoInvocation ==
    [pc |-> "idle", entry |-> "none", daily_limit |-> 0, remaining |-> 0,
     products |-> 0, base |-> 0, i |-> 0, posted_count |-> 0, sims |-> 0,
     verdict |-> "none", ret |-> 0, suspendedAtCheck |-> FALSE,
     errsAtCheck |-> 0, fresh |-> FALSE, clean |-> FALSE,
     handler |-> "none", storeFault |-> FALSE, alerts |-> <<>>]

\* The second process's post_to_room locals.
NoOther ==
    [pc |-> "idle", daily_limit |-> 0, products |-> 0, base |-> 0, i |-> 0,
     posted_count |-> 0]

\* The settings a behaviour runs under.  success_threshold is 0.8 unless the
\* attribute is assigned; it is read only when GRADUAL_MODE is on and DRY_RUN
\* is off, so other values are drawn with these flags alone.
NoOut == [op |-> "none"]

\* A spreadsheet whose rows are not looked at: the invocation is given the
\* number of rows that have a URL.
NoSheet == <<>>

Settings ==
    {e \in [dry_run : BOOLEAN, gradual_mode : BOOLEAN,
            success_threshold : {success_threshold, success_threshold + 5}] :
        e.success_threshold # success_threshold => (~e.dry_run /\ e.gradual_mode)}

Init ==
    /\ env \in Settings
    /\ now = 0
    /\ stats = [d \in Days |-> NoDayRecord]
    /\ errFile = NoErrFile
    /\ metricsFile = NoMetricsFile
    /\ inv = NoInvocation
    /\ livePosts = [d \in Days |-> 0]
    /\ runs = 0
    /\ faults = 0
    /\ failCalls = 0
    /\ lastCall = NoCall
    /\ other = NoOther
    /\ out = NoOut
    /\ sh = NoSheet

\* ------------------------------------------------------------------ time
\* The clock moves on between invocations; a finished invocation's process
\* is gone by then.  (TrackerSpec has no invocation and is always idle.)
Tick ==
    /\ inv.pc \in {"idle", "done", "crashed"}
    /\ other.pc \in {"idle", "done"}
    /\ \E t \in TimeGrid : t > now /\ now' = t
    /\ lastCall' = NoCall
    /\ inv' = IF inv.pc = "idle" THEN inv ELSE NoInvocation
    /\ UNCHANGED <<env, sh, out, other, stats, errFile, metricsFile, livePosts, runs, faults, failCalls>>

\* ------------------------------------- the Failure Tracker called directly
TrackerRecordError ==
    /\ Len(errFile.last_errors) < MaxErrCalls
    /\ CallRecordError("POST_FAILURE")
    /\ UNCHANGED <<env, sh, out, other, now, stats, metricsFile, inv, livePosts, runs, faults>>

TrackerRecordSuccess ==
    /\ CallRecordSuccess
    /\ UNCHANGED <<env, sh, out, other, now, stats, metricsFile, inv, livePosts, runs, faults>>

TrackerCheckSuspension ==
    /\ lastCall' = [op |-> "check_suspension_status",
                    countBefore |-> errFile.consecutive_errors,
                    untilBefore |-> errFile.suspended_until,
                    result |-> check_suspension_status(errFile, now)]
    /\ UNCHANGED <<env, sh, out, other, now, stats, errFile, metricsFile, inv, livePosts, runs, faults, failCalls>>

TrackerInit ==
    /\ env = [dry_run |-> FALSE, gradual_mode |-> TRUE,
              success_threshold |-> success_threshold]
    /\ now = 0
    /\ stats = [d \in Days |-> NoDayRecord]
    /\ errFile \in {NoErrFile, [NoErrFile EXCEPT !.exists = TRUE]}
    /\ metricsFile = NoMetricsFile
    /\ inv = NoInvocation
    /\ livePosts = [d \in Days |-> 0]
    /\ runs = 0
    /\ faults = 0
    /\ failCalls = 0
    /\ lastCall = NoCall
    /\ other = NoOther
    /\ out = NoOut
    /\ sh = NoSheet

TrackerNext ==
    \/ Tick
    \/ TrackerRecordError
    \/ TrackerRecordSuccess
    \/ TrackerCheckSuspension

TrackerSpec == TrackerInit /\ [][TrackerNext]_vars

\* ------------------------------------------------- poster.main, first part
\* Invocations do not overlap: one starts when none is running.
CanStart == inv.pc \in {"idle", "done", "crashed"} /\ runs < MaxRuns

\* The types of the alerts main() hands to create_github_alert, right after
\* RoomPoster() and before the suspension check; main.py hands over none.
alerts_at_start(entry) ==
    IF entry = "poster"
    THEN LET health == monitor_system_health(errFile, metricsFile, now,
                                             env.dry_run, env.gradual_mode)
             sent == process_health_alerts(health, TRUE, env.dry_run, "201").sent
         IN  [i \in 1 .. Len(sent) |-> sent[i].type]
    ELSE <<>>

StartInvocation(entry, limit) ==
    [NoInvocation EXCEPT
        !.entry = entry, !.daily_limit = limit,
        !.alerts = alerts_at_start(entry),
        !.suspendedAtCheck = SuspensionActive,
        !.errsAtCheck = errFile.consecutive_errors,
        !.fresh = (~errFile.exists /\ ~metricsFile.exists
                   /\ \A d \in Days : ~stats[d].present),
        !.clean = TRUE]

PosterMainSuspended_recording_error ==
    /\ CanStart
    /\ check_suspension_status(errFile, now)
    /\ metricsFile' = record_execution_metrics(metricsFile, now, FALSE, 0, 0, "suspended")
    /\ inv' = [StartInvocation("poster", poster_daily_limit) EXCEPT
                  !.pc = "done", !.verdict = "SUSPENDED", !.ret = 0]
    /\ runs' = runs + 1
    /\ CallRecordError("SYSTEM_SUSPENDED")
    /\ UNCHANGED <<env, sh, out, other, faults, now, stats, livePosts>>

\* main() finds the system suspended.
PosterMainSuspended ==
    /\ CanStart
    /\ check_suspension_status(errFile, now)
    /\ metricsFile' = record_execution_metrics(metricsFile, now, FALSE, 0, 0, "suspended")
    /\ inv' = [StartInvocation("poster", poster_daily_limit) EXCEPT
                  !.pc = "done", !.verdict = "SUSPENDED", !.ret = 0]
    /\ runs' = runs + 1
    /\ lastCall' = NoCall
    /\ UNCHANGED <<env, sh, out, other, faults, now, stats, errFile, livePosts, failCalls>>

PosterMainNothingToDo_as_failure(rows) ==
    /\ CanStart
    /\ ~check_suspension_status(errFile, now)
    /\ LET remaining == remaining_budget(poster_daily_limit, stats, now)
           products == get_products_to_post(rows, remaining)
       IN  /\ remaining <= 0 \/ products = 0
           /\ inv' = [StartInvocation("poster", poster_daily_limit) EXCEPT
                         !.pc = "done", !.remaining = remaining,
                         !.products = IF remaining <= 0 THEN 0 ELSE products,
                         !.verdict = IF remaining <= 0 THEN "NO_BUDGET" ELSE "NO_PRODUCTS",
                         !.ret = 0]
    /\ runs' = runs + 1
    /\ CallRecordError("POST_FAILURE")
    /\ UNCHANGED <<env, sh, out, other, faults, now, stats, metricsFile, livePosts>>

\* main() returns 0 for lack of budget or of candidates.
PosterMainNothingToDo(rows) ==
    /\ CanStart
    /\ ~check_suspension_status(errFile, now)
    /\ LET remaining == remaining_budget(poster_daily_limit, stats, now)
           products == get_products_to_post(rows, remaining)
       IN  /\ remaining <= 0 \/ products = 0
           /\ inv' = [StartInvocation("poster", poster_daily_limit) EXCEPT
                         !.pc = "done", !.remaining = remaining,
                         !.products = IF remaining <= 0 THEN 0 ELSE products,
                         !.verdict = IF remaining <= 0 THEN "NO_BUDGET" ELSE "NO_PRODUCTS",
                         !.ret = 0]
    /\ runs' = runs + 1
    /\ lastCall' = NoCall
    /\ UNCHANGED <<env, sh, out, other, faults, now, stats, errFile, metricsFile, livePosts, failCalls>>

PosterMainDryRun_counting_quota(rows) ==
    /\ CanStart
    /\ ~check_suspension_status(errFile, now)
    /\ LET remaining == remaining_budget(poster_daily_limit, stats, now)
           products == get_products_to_post(rows, remaining)
           posted_count == dry_run_mode(products)
       IN  /\ remaining > 0 /\ products > 0
           /\ \/ env.dry_run
              \/ env.gradual_mode /\ ~should_allow_posting(errFile, env.gradual_mode, env.success_threshold)
           /\ CallRecordSuccess
           /\ metricsFile' = record_execution_metrics(metricsFile, now, TRUE,
                                 posted_count, products,
                                 execution_mode(env.dry_run, env.gradual_mode))
           /\ stats' = update_daily_stats(stats, now,
                           get_daily_stats(stats, now).posts + posted_count)
           /\ inv' = [StartInvocation("poster", poster_daily_limit) EXCEPT
                         !.pc = "done", !.remaining = remaining, !.products = products,
                         !.sims = products, !.posted_count = posted_count,
                         !.verdict = "DRY_RUN_ONLY", !.ret = posted_count]
    /\ runs' = runs + 1
    /\ UNCHANGED <<env, sh, out, other, faults, now, livePosts>>

PosterMainDryRun_as_failure(rows) ==
    /\ CanStart
    /\ ~check_suspension_status(errFile, now)
    /\ LET remaining == remaining_budget(poster_daily_limit, stats, now)
           products == get_products_to_post(rows, remaining)
       IN  /\ remaining > 0 /\ products > 0
           /\ \/ env.dry_run
              \/ env.gradual_mode /\ ~should_allow_posting(errFile, env.gradual_mode, env.success_threshold)
           /\ CallRecordError("POST_FAILURE")
           /\ metricsFile' = record_execution_metrics(metricsFile, now, FALSE,
                                 0, products,
                                 execution_mode(env.dry_run, env.gradual_mode))
           /\ inv' = [StartInvocation("poster", poster_daily_limit) EXCEPT
                         !.pc = "done", !.remaining = remaining, !.products = products,
                         !.sims = products, !.posted_count = 0,
                         !.verdict = "DRY_RUN_ONLY", !.ret = 0]
    /\ runs' = runs + 1
    /\ UNCHANGED <<env, sh, out, other, faults, now, stats, livePosts>>

\* main() in dry-run mode (DRY_RUN, or the gradual gate closed), to its end.
PosterMainDryRun(rows) ==
    /\ CanStart
    /\ ~check_suspension_status(errFile, now)
    /\ LET remaining == remaining_budget(poster_daily_limit, stats, now)
           products == get_products_to_post(rows, remaining)
           posted_count == dry_run_mode(products)
       IN  /\ remaining > 0 /\ products > 0
           /\ \/ env.dry_run
              \/ env.gradual_mode /\ ~should_allow_posting(errFile, env.gradual_mode, env.success_threshold)
           /\ CallRecordSuccess
           /\ metricsFile' = record_execution_metrics(metricsFile, now, TRUE,
                                 posted_count, products,
                                 execution_mode(env.dry_run, env.gradual_mode))
           /\ inv' = [StartInvocation("poster", poster_daily_limit) EXCEPT
                         !.pc = "done", !.remaining = remaining, !.products = products,
                         !.sims = products, !.posted_count = posted_count,
                         !.verdict = "DRY_RUN_ONLY", !.ret = posted_count]
    /\ runs' = runs + 1
    /\ UNCHANGED <<env, sh, out, other, faults, now, stats, livePosts>>

\* main() in live mode up to the login in post_to_room: the quota is read
\* again (post_to_room returns 0 when it is used up), then the browser
\* session opens; loginOk = FALSE is _login failing.
PosterMainLive(rows, loginOk) ==
    /\ CanStart
    /\ ~check_suspension_status(errFile, now)
    /\ LET remaining == remaining_budget(poster_daily_limit, stats, now)
           products == get_products_to_post(rows, remaining)
       IN  /\ remaining > 0 /\ products > 0
           /\ ~env.dry_run
           /\ ~(env.gradual_mode /\ ~should_allow_posting(errFile, env.gradual_mode, env.success_threshold))
           /\ inv' = [StartInvocation("poster", poster_daily_limit) EXCEPT
                         !.pc = IF post_to_room_may_post(get_daily_stats(stats, now).posts,
                                                         0, poster_daily_limit) /\ loginOk
                                THEN "posting" ELSE "finish",
                         !.remaining = remaining, !.products = products,
                         !.base = get_daily_stats(stats, now).posts,
                         !.verdict = "LIVE", !.clean = loginOk]
    /\ runs' = runs + 1
    /\ lastCall' = NoCall
    /\ UNCHANGED <<env, sh, out, other, faults, now, stats, errFile, metricsFile, livePosts, failCalls>>

\* main()'s except block: it constructs a RoomPoster again, calls
\* record_error and then record_execution_metrics; the first of these that
\* raises ends it (except: pass).
HandlerOutcomes == {"ok", "init_failed", "record_error_failed", "metrics_failed"}

ExceptHandler(handler) ==
    /\ IF handler \in {"init_failed", "record_error_failed"}
       THEN UNCHANGED <<errFile, failCalls>> /\ lastCall' = NoCall
       ELSE CallRecordError("SYSTEM_ERROR")
    /\ metricsFile' =
          IF handler = "ok"
          THEN record_execution_metrics(metricsFile, now, FALSE, 0, 0, "error")
          ELSE metricsFile

\* An exception raised in main()'s try block after RoomPoster() and before
\* the admission check (monitor_system_health, process_health_alerts), and
\* the except block's attempt to record it.
PosterMainFault(handler) ==
    /\ CanStart
    /\ faults < MaxFaults
    /\ ExceptHandler(handler)
    /\ inv' = [StartInvocation("poster", poster_daily_limit) EXCEPT
                  !.pc = "done", !.verdict = "ERROR", !.ret = 0, !.clean = FALSE,
                  !.suspendedAtCheck = FALSE, !.handler = handler]
    /\ runs' = runs + 1
    /\ faults' = faults + 1
    /\ UNCHANGED <<env, sh, out, other, now, stats, livePosts>>

\* ------------------------------------------------ main.py --mode post|full
CliMainNothingToDo(max_posts, rows) ==
    /\ CanStart
    /\ LET limit == Min(max_posts, cli_limit_cap)
           remaining == remaining_budget(limit, stats, now)
           products == get_products_to_post(rows, remaining)
       IN  /\ remaining <= 0 \/ products = 0
           /\ inv' = [StartInvocation("cli", limit) EXCEPT
                         !.pc = "done", !.remaining = remaining,
                         !.products = IF remaining <= 0 THEN 0 ELSE products,
                         !.verdict = IF remaining <= 0 THEN "NO_BUDGET" ELSE "NO_PRODUCTS",
                         !.ret = 0]
    /\ runs' = runs + 1
    /\ lastCall' = NoCall
    /\ UNCHANGED <<env, sh, out, other, faults, now, stats, errFile, metricsFile, livePosts, failCalls>>

CliMainLive(max_posts, rows, loginOk) ==
    /\ CanStart
    /\ LET limit == Min(max_posts, cli_limit_cap)
           remaining == remaining_budget(limit, stats, now)
           products == get_products_to_post(rows, remaining)
       IN  /\ remaining > 0 /\ products > 0
           /\ inv' = [StartInvocation("cli", limit) EXCEPT
                         !.pc = IF post_to_room_may_post(get_daily_stats(stats, now).posts,
                                                         0, limit) /\ loginOk
                                THEN "posting" ELSE "finish",
                         !.remaining = remaining, !.products = products,
                         !.base = get_daily_stats(stats, now).posts,
                         !.verdict = "LIVE", !.clean = loginOk]
    /\ runs' = runs + 1
    /\ lastCall' = NoCall
    /\ UNCHANGED <<env, sh, out, other, faults, now, stats, errFile, metricsFile, livePosts, failCalls>>

\* ------------------------------------------------ post_to_room, the loop
\* One iteration: _post_product on products[i]; posted = FALSE is a False
\* return or an exception, after which the loop goes on.
PostProduct(posted) ==
    /\ inv.pc = "posting"
    /\ inv.i < inv.products
    /\ post_to_room_may_post(inv.base, inv.posted_count, inv.daily_limit)
    /\ IF posted
       THEN /\ stats' = update_daily_stats(stats, now, inv.base + inv.posted_count + 1)
            /\ livePosts' = [livePosts EXCEPT ![Today(now)] = @ + 1]
            /\ inv' = [inv EXCEPT !.i = @ + 1, !.posted_count = @ + 1,
                                  !.pc = IF inv.i < inv.products - 1
                                         THEN "sleep" ELSE "posting"]
       ELSE /\ inv' = [inv EXCEPT !.i = @ + 1, !.clean = FALSE]
            /\ UNCHANGED <<stats, livePosts>>
    /\ UNCHANGED <<env, sh, out, other, now, errFile, metricsFile, runs, faults, failCalls, lastCall>>

\* time.sleep(random.uniform(300, 600)) after a post that is not the last
\* item: the clock stays at this instant or reaches the next one.
Sleep ==
    /\ inv.pc = "sleep"
    /\ now' \in {now} \cup {t \in TimeGrid : t > now /\ \A u \in TimeGrid : u > now => t <= u}
    /\ inv' = [inv EXCEPT !.pc = "posting"]
    /\ UNCHANGED <<env, sh, out, other, stats, errFile, metricsFile, livePosts, runs, faults, failCalls, lastCall>>

\* The loop is left (all items tried, or the limit reached) and post_to_room
\* returns posted_count.
LoopDone ==
    /\ inv.pc = "posting"
    /\ \/ inv.i >= inv.products
       \/ ~post_to_room_may_post(inv.base, inv.posted_count, inv.daily_limit)
    /\ inv' = [inv EXCEPT !.pc = "finish"]
    /\ UNCHANGED <<env, sh, out, other, now, stats, errFile, metricsFile, livePosts, runs, faults, failCalls, lastCall>>

\* ------------------------------------------------- poster.main, last part
PosterMainSuccess ==
    /\ inv.pc = "finish"
    /\ inv.entry = "poster"
    /\ inv.posted_count > 0
    /\ CallRecordSuccess
    /\ metricsFile' = record_execution_metrics(metricsFile, now, TRUE,
                          inv.posted_count, inv.products,
                          execution_mode(env.dry_run, env.gradual_mode))
    /\ inv' = [inv EXCEPT !.pc = "done", !.ret = inv.posted_count]
    /\ UNCHANGED <<env, sh, out, other, now, stats, livePosts, runs, faults>>

PosterMainFailure ==
    /\ inv.pc = "finish"
    /\ inv.entry = "poster"
    /\ inv.posted_count = 0
    /\ CallRecordError("POST_FAILURE")
    /\ metricsFile' = record_execution_metrics(metricsFile, now, FALSE,
                          0, inv.products,
                          execution_mode(env.dry_run, env.gradual_mode))
    /\ inv' = [inv EXCEPT !.pc = "done", !.ret = 0, !.clean = FALSE]
    /\ UNCHANGED <<env, sh, out, other, now, stats, livePosts, runs, faults>>

\* main.py prints the count and returns 0; it records nothing.
CliMainEnd ==
    /\ inv.pc = "finish"
    /\ inv.entry = "cli"
    /\ inv' = [inv EXCEPT !.pc = "done", !.ret = 0]
    /\ UNCHANGED <<env, sh, out, other, now, stats, errFile, metricsFile, livePosts, runs, faults, failCalls, lastCall>>

Next ==
    \/ Tick
    \/ PosterMainSuspended
    \/ \E rows \in 0 .. MaxProducts : PosterMainNothingToDo(rows)
    \/ \E rows \in 0 .. MaxProducts : PosterMainDryRun(rows)
    \/ \E rows \in 0 .. MaxProducts, loginOk \in BOOLEAN : PosterMainLive(rows, loginOk)
    \/ \E handler \in HandlerOutcomes : PosterMainFault(handler)
    \/ \E max_posts \in 0 .. MaxPostsArg, rows \in 0 .. MaxProducts :
          CliMainNothingToDo(max_posts, rows)
    \/ \E max_posts \in 0 .. MaxPostsArg, rows \in 0 .. MaxProducts, loginOk \in BOOLEAN :
          CliMainLive(max_posts, rows, loginOk)
    \/ \E posted \in BOOLEAN : PostProduct(posted)
    \/ Sleep
    \/ LoopDone
    \/ PosterMainSuccess
    \/ PosterMainFailure
    \/ CliMainEnd

Spec == Init /\ [][Next]_vars

\* ------------------------------------- a second process at the same time
\* `python main.py --mode post` started while another invocation may be
\* running: nothing in the code keeps two processes apart.  It reads the quota
\* as main.py does and then runs post_to_room's loop on its own locals.
OtherStart(max_posts, rows) ==
    /\ other.pc \in {"idle", "done"}
    /\ runs < MaxRuns
    /\ LET limit == Min(max_posts, cli_limit_cap)
           remaining == remaining_budget(limit, stats, now)
           products == get_products_to_post(rows, remaining)
       IN  /\ remaining > 0 /\ products > 0
           /\ post_to_room_may_post(get_daily_stats(stats, now).posts, 0, limit)
           /\ other' = [pc |-> "posting", daily_limit |-> limit,
                        products |-> products,
                        base |-> get_daily_stats(stats, now).posts,
                        i |-> 0, posted_count |-> 0]
    /\ runs' = runs + 1
    /\ UNCHANGED <<env, sh, out, now, stats, errFile, metricsFile, inv, livePosts, faults, failCalls, lastCall>>

OtherPostProduct(posted) ==
    /\ other.pc = "posting"
    /\ other.i < other.products
    /\ post_to_room_may_post(other.base, other.posted_count, other.daily_limit)
    /\ IF posted
       THEN /\ stats' = update_daily_stats(stats, now, other.base + other.posted_count + 1)
            /\ livePosts' = [livePosts EXCEPT ![Today(now)] = @ + 1]
            /\ other' = [other EXCEPT !.i = @ + 1, !.posted_count = @ + 1]
       ELSE /\ other' = [other EXCEPT !.i = @ + 1]
            /\ UNCHANGED <<stats, livePosts>>
    /\ UNCHANGED <<env, sh, out, now, errFile, metricsFile, inv, runs, faults, failCalls, lastCall>>

OtherEnd ==
    /\ other.pc = "posting"
    /\ \/ other.i >= other.products
       \/ ~post_to_room_may_post(other.base, other.posted_count, other.daily_limit)
    /\ other' = [other EXCEPT !.pc = "done"]
    /\ UNCHANGED <<env, sh, out, now, stats, errFile, metricsFile, inv, livePosts, runs, faults, failCalls, lastCall>>

\* Live invocations of either entry point with a second process beside them.
OverlapInit ==
    /\ Init
    /\ env = [dry_run |-> FALSE, gradual_mode |-> TRUE,
              success_threshold |-> success_threshold]

OverlapNext ==
    \/ Tick
    \/ \E rows \in 0 .. MaxProducts, loginOk \in BOOLEAN : PosterMainLive(rows, loginOk)
    \/ \E max_posts \in 0 .. MaxPostsArg, rows \in 0 .. MaxProducts, loginOk \in BOOLEAN :
          CliMainLive(max_posts, rows, loginOk)
    \/ \E posted \in BOOLEAN : PostProduct(posted)
    \/ Sleep
    \/ LoopDone
    \/ PosterMainSuccess
    \/ PosterMainFailure
    \/ CliMainEnd
    \/ \E max_posts \in 0 .. MaxPostsArg, rows \in 0 .. MaxProducts :
          OtherStart(max_posts, rows)
    \/ \E posted \in BOOLEAN : OtherPostProduct(posted)
    \/ OtherEnd

OverlapSpec == OverlapInit /\ [][OverlapNext]_vars

\* ------------------------------------------------- invocations that break
\* The process is killed (or the machine stops) inside post_to_room or before
\* main() has recorded the outcome; no handler runs.  posted = TRUE is the
\* kill that comes after _post_product succeeded and before
\* update_daily_stats has written.
Crash(posted) ==
    /\ inv.pc \in {"posting", "sleep", "finish"}
    /\ faults < MaxFaults
    /\ posted =>
          /\ inv.pc = "posting"
          /\ inv.i < inv.products
          /\ post_to_room_may_post(inv.base, inv.posted_count, inv.daily_limit)
    /\ livePosts' = IF posted
                    THEN [livePosts EXCEPT ![Today(now)] = @ + 1]
                    ELSE livePosts
    /\ inv' = [inv EXCEPT !.pc = "crashed", !.clean = FALSE]
    /\ faults' = faults + 1
    /\ UNCHANGED <<env, sh, out, other, now, stats, errFile, metricsFile, runs, failCalls, lastCall>>

RoomPoster_init_unchecked(required_vars_set) == TRUE

\* RoomPoster() returns (TRUE) or raises ValueError (FALSE): it raises when
\* one of ROOM_EMAIL, ROOM_PASSWORD, GSA_JSON_B64, GSPREAD_KEY is not set.
RoomPoster_init(required_vars_set) == required_vars_set

\* main() with a required setting missing: RoomPoster() raises at the first
\* line of the try block and again in the except block, whose body is then
\* skipped.
PosterMainConfigError ==
    /\ CanStart
    /\ faults < MaxFaults
    /\ ExceptHandler(IF RoomPoster_init(FALSE) THEN "ok" ELSE "init_failed")
    /\ inv' = [StartInvocation("poster", poster_daily_limit) EXCEPT
                  !.pc = "done", !.verdict = "CONFIG_ERROR", !.ret = 0,
                  !.clean = FALSE, !.suspendedAtCheck = FALSE, !.alerts = <<>>,
                  !.handler = IF RoomPoster_init(FALSE) THEN "ok" ELSE "init_failed"]
    /\ runs' = runs + 1
    /\ faults' = faults + 1
    /\ UNCHANGED <<env, sh, out, other, now, stats, livePosts>>

\* main() past the suspension check, get_daily_stats raising on
\* daily_stats.json (unreadable, or not JSON): the except block runs.
PosterMainStoreFault(handler) ==
    /\ CanStart
    /\ faults < MaxFaults
    /\ ~check_suspension_status(errFile, now)
    /\ ExceptHandler(handler)
    /\ inv' = [StartInvocation("poster", poster_daily_limit) EXCEPT
                  !.pc = "done", !.verdict = "ERROR", !.ret = 0, !.clean = FALSE,
                  !.handler = handler, !.storeFault = TRUE]
    /\ runs' = runs + 1
    /\ faults' = faults + 1
    /\ UNCHANGED <<env, sh, out, other, now, stats, livePosts>>

\* One iteration of post_to_room's loop in which _post_product succeeds and
\* update_daily_stats raises: posted_count is already incremented, the
\* loop's except clause prints the error and goes to the next item.
PostProductStoreFault ==
    /\ inv.pc = "posting"
    /\ faults < MaxFaults
    /\ inv.i < inv.products
    /\ post_to_room_may_post(inv.base, inv.posted_count, inv.daily_limit)
    /\ livePosts' = [livePosts EXCEPT ![Today(now)] = @ + 1]
    /\ inv' = [inv EXCEPT !.i = @ + 1, !.posted_count = @ + 1,
                          !.clean = FALSE, !.storeFault = TRUE]
    /\ faults' = faults + 1
    /\ UNCHANGED <<env, sh, out, other, now, stats, errFile, metricsFile, runs, failCalls, lastCall>>

\* main() after post_to_room: record_success, record_error or
\* record_execution_metrics raises before it has written, and the except
\* block runs.
PosterMainLateFault(handler) ==
    /\ inv.pc = "finish"
    /\ inv.entry = "poster"
    /\ faults < MaxFaults
    /\ ExceptHandler(handler)
    /\ inv' = [inv EXCEPT !.pc = "done", !.verdict = "ERROR", !.ret = 0,
                          !.clean = FALSE, !.handler = handler,
                          !.storeFault = TRUE]
    /\ faults' = faults + 1
    /\ UNCHANGED <<env, sh, out, other, now, stats, livePosts, runs>>

FaultNext ==
    \/ Next
    \/ \E posted \in BOOLEAN : Crash(posted)
    \/ PosterMainConfigError
    \/ \E handler \in HandlerOutcomes : PosterMainStoreFault(handler)
    \/ PostProductStoreFault
    \/ \E handler \in HandlerOutcomes : PosterMainLateFault(handler)

FaultSpec == Init /\ [][FaultNext]_vars

\* -------------------------------------------------------- Report Generator
\* week_stats / month_stats of the period summary
period_stats_unguarded(execs) ==
    [total |-> Len(execs),
     successful |-> Successful(execs),
     success_rate |-> Divide(Successful(execs), Len(execs))]

period_stats(execs) ==
    [total |-> Len(execs),
     successful |-> Successful(execs),
     success_rate |->
        IF Len(execs) > 0 THEN Divide(Successful(execs), Len(execs)) ELSE Divide(0, 1)]

report_trend(week_rate, month_rate) ==
    IF RateAboveBy(week_rate, month_rate, report_trend_margin) THEN "improving"
    ELSE IF RateBelowBy(week_rate, month_rate, report_trend_margin) THEN "degrading"
    ELSE "stable"

report_recommendations(week_rate, trend, week_total) ==
    LET recommendations ==
            (IF RateBelow(week_rate, report_low_week_rate) THEN <<"inspect_system">> ELSE <<>>)
            \o (IF trend = "degrading" THEN <<"check_site_changes">> ELSE <<>>)
            \o (IF week_total = 0 THEN <<"check_settings">> ELSE <<>>)
    IN  IF recommendations = <<>> THEN <<"operating_normally">> ELSE recommendations

\* A report that returns before the period summary has no statistics, no
\* trend and no recommendation: has_stats tells the two shapes apart.
NoStats == [total |-> 0, successful |-> 0, success_rate |-> Divide(0, 1)]

InsufficientData(message) ==
    [message |-> message, has_stats |-> FALSE,
     week_stats |-> NoStats, month_stats |-> NoStats,
     trend |-> "none", recommendations |-> <<>>]

generate_performance_report(mf, t) ==
    IF ~mf.exists THEN InsufficientData("no_metrics_accumulated")
    ELSE IF mf.executions = <<>> THEN InsufficientData("no_execution_history")
    ELSE
        LET week_execs == ExecutionsAfter(mf.executions, t - week_days * HoursPerDay)
            month_execs == ExecutionsAfter(mf.executions, t - month_days * HoursPerDay)
            week_stats == period_stats(week_execs)
            month_stats == period_stats(month_execs)
            trend == report_trend(week_stats.success_rate, month_stats.success_rate)
        IN  [message |-> "none", has_stats |-> TRUE,
             week_stats |-> week_stats, month_stats |-> month_stats,
             trend |-> trend,
             recommendations |->
                report_recommendations(week_stats.success_rate, trend, week_stats.total)]

\* ------------------------------- the reading operations, on given documents
\* The operations that read the failure and metrics documents, each called on
\* documents some earlier invocations left behind, at the instant EvalNow.
\* The log's timestamps lie on both sides of the 7-day and the 30-day cutoff
\* and on the cutoffs themselves.
EvalNow == (month_days + 1) * HoursPerDay

Stamps ==
    {EvalNow - month_days * HoursPerDay, EvalNow - month_days * HoursPerDay + 1,
     EvalNow - week_days * HoursPerDay, EvalNow - week_days * HoursPerDay + 1,
     EvalNow}

LogRecord(t, success) ==
    [timestamp |-> t, success |-> success,
     posted_count |-> IF success THEN 1 ELSE 0,
     target_count |-> 1, mode |-> "live"]

\* executions are appended with datetime.now(): oldest first
Logs ==
    {s \in UNION {[1 .. n -> {LogRecord(t, ok) : t \in Stamps, ok \in BOOLEAN}] :
                     n \in 0 .. MaxLogLen} :
        \A i \in 1 .. Len(s) - 1 : s[i].timestamp <= s[i + 1].timestamp}

\* error_tracking.json after n failures in a row; suspended_until is set
\* from the third failure on, and lies at EvalNow or after it.
FailureFile(n, until) ==
    [exists |-> TRUE,
     consecutive_errors |-> n,
     last_errors |->
        [i \in 1 .. n |->
            [timestamp |-> IF until = NoSuspension THEN EvalNow - 1
                           ELSE until - suspension_hours,
             type |-> "POST_FAILURE"]],
     suspended_until |-> until]

FailureFiles ==
    {NoErrFile}
    \cup {FailureFile(n, NoSuspension) : n \in 0 .. max_consecutive_errors - 1}
    \cup {FailureFile(n, until) : n \in max_consecutive_errors .. MaxErrCalls,
                                  until \in {EvalNow, EvalNow + 1}}

EvalInit ==
    /\ env \in {e \in Settings : e.gradual_mode /\ e.success_threshold = success_threshold}
    /\ now = EvalNow
    /\ stats = [d \in Days |-> NoDayRecord]
    /\ errFile \in FailureFiles
    /\ metricsFile \in {NoMetricsFile} \cup {[exists |-> TRUE, executions |-> s] : s \in Logs}
    /\ inv = NoInvocation
    /\ livePosts = [d \in Days |-> 0]
    /\ runs = 0
    /\ faults = 0
    /\ failCalls = 0
    /\ lastCall = NoCall
    /\ other = NoOther
    /\ out = NoOut
    /\ sh = NoSheet

EvalCalculateSuccessRate ==
    /\ out' = [op |-> "calculate_success_rate",
               metrics |-> calculate_success_rate(errFile, metricsFile, now, week_days)]
    /\ UNCHANGED <<env, sh, other, now, stats, errFile, metricsFile, inv, livePosts, runs, faults, failCalls, lastCall>>

EvalMonitorSystemHealth_recording ==
    /\ out' = [op |-> "monitor_system_health",
               health |-> monitor_system_health(errFile, metricsFile, now,
                                                env.dry_run, env.gradual_mode),
               steps |-> monitor_system_health_steps(errFile, metricsFile, now)]
    /\ metricsFile' = record_execution_metrics(metricsFile, now, TRUE, 0, 0, "health")
    /\ UNCHANGED <<env, sh, other, now, stats, errFile, inv, livePosts, runs, faults, failCalls, lastCall>>

EvalMonitorSystemHealth ==
    /\ out' = [op |-> "monitor_system_health",
               health |-> monitor_system_health(errFile, metricsFile, now,
                                                env.dry_run, env.gradual_mode),
               steps |-> monitor_system_health_steps(errFile, metricsFile, now)]
    /\ UNCHANGED <<env, sh, other, now, stats, errFile, metricsFile, inv, livePosts, runs, faults, failCalls, lastCall>>

\* main() hands the health record to process_health_alerts inside its try
\* block: an exception leaving it would be recorded by the except block.
EvalProcessHealthAlerts(github_token, response) ==
    LET health == monitor_system_health(errFile, metricsFile, now,
                                        env.dry_run, env.gradual_mode)
        done == process_health_alerts(health, github_token, env.dry_run, response)
    IN  /\ out' = [op |-> "process_health_alerts",
                   health |-> health,
                   sent |-> done.sent,
                   logged |-> done.logged,
                   raised |-> done.raised]
        /\ IF done.raised
           THEN ExceptHandler("ok")
           ELSE UNCHANGED <<errFile, failCalls, lastCall, metricsFile>>
        /\ UNCHANGED <<env, sh, other, now, stats, inv, livePosts, runs, faults>>

EvalGeneratePerformanceReport ==
    /\ out' = [op |-> "generate_performance_report",
               report |-> generate_performance_report(metricsFile, now)]
    /\ UNCHANGED <<env, sh, other, now, stats, errFile, metricsFile, inv, livePosts, runs, faults, failCalls, lastCall>>

EvalNext ==
    \/ EvalCalculateSuccessRate
    \/ EvalMonitorSystemHealth
    \/ \E github_token \in BOOLEAN, response \in Responses :
          EvalProcessHealthAlerts(github_token, response)
    \/ EvalGeneratePerformanceReport

EvalSpec == EvalInit /\ [][EvalNext]_vars

\* ------------------------------------------- one invocation a day, for long
\* poster.main started once every suspension_hours for MaxDailyRuns days, so
\* that both bounded lists fill up and overflow.  With DRY_RUN set every
\* invocation is a simulation that main() records as a success; with DRY_RUN
\* and GRADUAL_MODE off every invocation goes live, posts nothing (the login
\* fails) and is recorded as a failure: the suspension it sets ends exactly
\* when the next invocation starts, which therefore is admitted.  Neither
\* kind of invocation writes daily_stats.json.
DailyInit ==
    /\ Init
    /\ ~env.gradual_mode

DailyDryRun ==
    /\ env.dry_run
    /\ runs < MaxDailyRuns
    /\ ~check_suspension_status(errFile, now)
    /\ CallRecordSuccess
    /\ metricsFile' = record_execution_metrics(metricsFile, now, TRUE,
                          dry_run_mode(1), 1,
                          execution_mode(env.dry_run, env.gradual_mode))
    /\ runs' = runs + 1
    /\ now' = now + suspension_hours
    /\ UNCHANGED <<env, sh, out, other, stats, inv, livePosts, faults>>

DailyFailure ==
    /\ ~env.dry_run
    /\ runs < MaxDailyRuns
    /\ ~check_suspension_status(errFile, now)
    /\ should_allow_posting(errFile, env.gradual_mode, env.success_threshold)
    /\ CallRecordError("POST_FAILURE")
    /\ metricsFile' = record_execution_metrics(metricsFile, now, FALSE,
                          0, 1,
                          execution_mode(env.dry_run, env.gradual_mode))
    /\ runs' = runs + 1
    /\ now' = now + suspension_hours
    /\ UNCHANGED <<env, sh, out, other, stats, inv, livePosts, faults>>

DailyNext ==
    \/ DailyDryRun
    \/ DailyFailure

DailySpec == DailyInit /\ [][DailyNext]_vars

\* ------------------------------------------ poster.main run by a scheduler
\* poster.main started every SchedulePeriod hours, DRY_RUN off, the sheet
\* always holding a candidate, the store never failing.  Each step is one
\* invocation from its start to its return followed by the wait for the next;
\* the only choice is whether the live post succeeds.
SchedulePeriod == HoursPerDay \div 2

ScheduledDays == 0 .. (MaxScheduledRuns * SchedulePeriod) \div HoursPerDay

ScheduledInit ==
    /\ env \in {e \in Settings : ~e.dry_run /\ e.success_threshold = success_threshold}
    /\ now = 0
    /\ stats = [d \in ScheduledDays |-> NoDayRecord]
    /\ errFile = NoErrFile
    /\ metricsFile = NoMetricsFile
    /\ inv = NoInvocation
    /\ livePosts = [d \in ScheduledDays |-> 0]
    /\ runs = 0
    /\ faults = 0
    /\ failCalls = 0
    /\ lastCall = NoCall
    /\ other = NoOther
    /\ out = NoOut
    /\ sh = NoSheet

\* The invocation has returned; the scheduler starts the next one later.
ScheduledReturn(verdict, ret) ==
    /\ runs < MaxScheduledRuns
    /\ inv' = [StartInvocation("poster", poster_daily_limit) EXCEPT
                  !.pc = "done", !.verdict = verdict, !.ret = ret,
                  !.remaining = remaining_budget(poster_daily_limit, stats, now)]
    /\ runs' = runs + 1
    /\ now' = now + SchedulePeriod
    /\ UNCHANGED <<env, sh, out, other, faults>>

ScheduledSuspended ==
    /\ check_suspension_status(errFile, now)
    /\ metricsFile' = record_execution_metrics(metricsFile, now, FALSE, 0, 0, "suspended")
    /\ lastCall' = NoCall
    /\ ScheduledReturn("SUSPENDED", 0)
    /\ UNCHANGED <<stats, errFile, livePosts, failCalls>>

ScheduledNoBudget ==
    /\ ~check_suspension_status(errFile, now)
    /\ remaining_budget(poster_daily_limit, stats, now) <= 0
    /\ lastCall' = NoCall
    /\ ScheduledReturn("NO_BUDGET", 0)
    /\ UNCHANGED <<stats, errFile, metricsFile, livePosts, failCalls>>

ScheduledDryRun_as_failure ==
    /\ ~check_suspension_status(errFile, now)
    /\ remaining_budget(poster_daily_limit, stats, now) > 0
    /\ env.gradual_mode
    /\ ~should_allow_posting(errFile, env.gradual_mode, env.success_threshold)
    /\ CallRecordError("POST_FAILURE")
    /\ metricsFile' = record_execution_metrics(metricsFile, now, FALSE, 0, 1,
                          execution_mode(env.dry_run, env.gradual_mode))
    /\ ScheduledReturn("DRY_RUN_ONLY", 0)
    /\ UNCHANGED <<stats, livePosts>>

ScheduledDryRun ==
    /\ ~check_suspension_status(errFile, now)
    /\ remaining_budget(poster_daily_limit, stats, now) > 0
    /\ env.gradual_mode
    /\ ~should_allow_posting(errFile, env.gradual_mode, env.success_threshold)
    /\ CallRecordSuccess
    /\ metricsFile' = record_execution_metrics(metricsFile, now, TRUE,
                          dry_run_mode(1), 1,
                          execution_mode(env.dry_run, env.gradual_mode))
    /\ ScheduledReturn("DRY_RUN_ONLY", dry_run_mode(1))
    /\ UNCHANGED <<stats, livePosts>>

ScheduledLive(posted) ==
    /\ ~check_suspension_status(errFile, now)
    /\ remaining_budget(poster_daily_limit, stats, now) > 0
    /\ ~(env.gradual_mode
         /\ ~should_allow_posting(errFile, env.gradual_mode, env.success_threshold))
    /\ IF posted
       THEN /\ stats' = update_daily_stats(stats, now, get_daily_stats(stats, now).posts + 1)
            /\ livePosts' = [livePosts EXCEPT ![Today(now)] = @ + 1]
            /\ CallRecordSuccess
            /\ metricsFile' = record_execution_metrics(metricsFile, now, TRUE, 1, 1,
                                  execution_mode(env.dry_run, env.gradual_mode))
            /\ ScheduledReturn("LIVE", 1)
       ELSE /\ CallRecordError("POST_FAILURE")
            /\ metricsFile' = record_execution_metrics(metricsFile, now, FALSE, 0, 1,
                                  execution_mode(env.dry_run, env.gradual_mode))
            /\ ScheduledReturn("LIVE", 0)
            /\ UNCHANGED <<stats, livePosts>>

ScheduledNext ==
    \/ ScheduledSuspended
    \/ ScheduledNoBudget
    \/ ScheduledDryRun
    \/ \E posted \in BOOLEAN : ScheduledLive(posted)

\* The scheduler keeps starting invocations.
ScheduledSpec == ScheduledInit /\ [][ScheduledNext]_vars /\ WF_vars(ScheduledNext)

\* ------------------------------------------------------ candidate selection
\* A worksheet is readable (get_all_values returns) or not (it raises), and
\* holds rows below its header; url is a row passing the test of the loop, at
\* least three cells and a non-empty second one.  A product is named by the
\* worksheet and the row it was built from.
Product(w, r) == [sheet_name |-> w, row |-> r]

\* products[:max_count]
Slice(products, max_count) ==
    IF max_count >= 0
    THEN SubSeq(products, 1, Min(Len(products), max_count))
    ELSE SubSeq(products, 1, Len(products) + max_count)

\* for row in rows: the loop from row r on
RECURSIVE scan_rows(_, _, _, _, _)
scan_rows(rows, w, r, products, max_count) ==
    IF r > Len(rows) THEN products
    ELSE IF ~rows[r].url THEN scan_rows(rows, w, r + 1, products, max_count)
    ELSE LET appended == Append(products, Product(w, r))
         IN  IF Len(appended) >= max_count THEN appended
             ELSE scan_rows(rows, w, r + 1, appended, max_count)

\* for worksheet in worksheets: the loop from worksheet w on
RECURSIVE scan_worksheets(_, _, _, _)
scan_worksheets(worksheets, w, products, max_count) ==
    IF w > Len(worksheets) THEN products
    ELSE IF ~worksheets[w].readable \/ Len(worksheets[w].rows) = 0
    THEN scan_worksheets(worksheets, w + 1, products, max_count)
    ELSE LET scanned == scan_rows(worksheets[w].rows, w, 1, products, max_count)
         IN  IF Len(scanned) >= max_count THEN scanned
             ELSE scan_worksheets(worksheets, w + 1, scanned, max_count)

\* A selection that leaves out what earlier invocations posted.
products_to_post_remembering(worksheets, worksheets_ok, max_count, published) ==
    IF ~worksheets_ok THEN <<>>
    ELSE Slice(SelectSeq(scan_worksheets(worksheets, 1, <<>>, Len(worksheets) * MaxSheetRows + 1),
                         LAMBDA p : p \notin published),
               max_count)

\* get_products_to_post(max_count) on the spreadsheet; worksheets_ok = FALSE is
\* self.sh.worksheets() raising.  published, what earlier invocations posted,
\* is not looked at.
products_to_post(worksheets, worksheets_ok, max_count, published) ==
    IF ~worksheets_ok THEN <<>>
    ELSE Slice(scan_worksheets(worksheets, 1, <<>>, max_count), max_count)

SheetRows ==
    UNION {[1 .. n -> [url : BOOLEAN]] : n \in 0 .. MaxSheetRows}

Worksheets == [readable : BOOLEAN, rows : SheetRows]

\* The spreadsheet is opened by RoomPoster(); what it holds is not up to the
\* program.  Nothing has been posted yet.
SheetInit ==
    /\ env = [dry_run |-> FALSE, gradual_mode |-> FALSE,
              success_threshold |-> success_threshold]
    /\ sh \in UNION {[1 .. n -> Worksheets] : n \in 0 .. MaxWorksheets}
    /\ out = [op |-> "none", products |-> <<>>, published |-> {}]
    /\ now = 0
    /\ stats = [d \in Days |-> NoDayRecord]
    /\ errFile = NoErrFile
    /\ metricsFile = NoMetricsFile
    /\ inv = NoInvocation
    /\ livePosts = [d \in Days |-> 0]
    /\ runs = 0
    /\ faults = 0
    /\ failCalls = 0
    /\ lastCall = NoCall
    /\ other = NoOther

\* One live invocation as far as its candidates go: the selection, and the
\* posting of every selected product (posted) or of none.
SheetInvocation(max_count, worksheets_ok, posted) ==
    LET products == products_to_post(sh, worksheets_ok, max_count, out.published)
    IN  /\ out' = [op |-> "get_products_to_post",
                   max_count |-> max_count,
                   worksheets_ok |-> worksheets_ok,
                   products |-> products,
                   posted |-> IF posted THEN {products[i] : i \in 1 .. Len(products)} ELSE {},
                   before |-> out.published,
                   published |->
                      out.published
                      \cup (IF posted THEN {products[i] : i \in 1 .. Len(products)} ELSE {})]
        /\ UNCHANGED <<env, sh, now, stats, errFile, metricsFile, inv, livePosts, runs, faults, failCalls, lastCall, other>>

SheetNext ==
    \E max_count \in 0 .. cli_limit_cap, worksheets_ok \in BOOLEAN, posted \in BOOLEAN :
        SheetInvocation(max_count, worksheets_ok, posted)

SheetSpec == SheetInit /\ [][SheetNext]_vars

\* ================================================================ claims
\* A step in which record_error was called.
RecordErrorStep == lastCall'.op = "record_error" /\ errFile' # errFile

\* An invocation of poster.main or main.py starts.
StartStep(entry) == runs' = runs + 1 /\ inv'.entry = entry

PostsToday == IF stats[Today(now)].present THEN stats[Today(now)].posts ELSE 0

C2_NoLiveActionWhileSuspended ==
    [][(\E d \in Days : livePosts'[d] > livePosts[d]) => ~SuspensionActive]_vars

C5_ConsecutiveFailuresCount ==
    /\ errFile.consecutive_errors = failCalls
    /\ lastCall.op = "record_success" => errFile.consecutive_errors = 0

C5_Witness ==
    /\ errFile.consecutive_errors = 2
    /\ Len(errFile.last_errors) = 3
    /\ lastCall.op = "record_error"

\* C6: suspendedUntil is set by exactly one kind of recordFailure call, the
\* one that brings the count to the threshold, and to now + 24h: an earlier
\* failure does not touch it and no later failure sets it again.
C6_SuspendedUntilSetExactlyAtThreshold ==
    [][RecordErrorStep =>
         /\ errFile'.consecutive_errors < max_consecutive_errors =>
               errFile'.suspended_until = errFile.suspended_until
         /\ errFile'.consecutive_errors = max_consecutive_errors =>
               errFile'.suspended_until = now + suspension_hours
         /\ errFile'.consecutive_errors > max_consecutive_errors =>
               errFile'.suspended_until = errFile.suspended_until]_vars

\* C7: a recordFailure made while a suspension is active leaves
\* suspendedUntil as it was.
C7_FailureDuringSuspensionKeepsEnd ==
    [][(RecordErrorStep /\ SuspensionActive) =>
          errFile'.suspended_until = errFile.suspended_until]_vars

\* C8: right after any recordSuccess suspendedUntil is absent, the count is 0
\* and the system is not suspended, also when the call came during an active
\* suspension window.
C8_SuccessClearsSuspension ==
    lastCall.op = "record_success" =>
        /\ errFile.suspended_until = NoSuspension
        /\ errFile.consecutive_errors = 0
        /\ ~SuspensionActive

C8_Witness ==
    /\ lastCall.op = "record_success"
    /\ lastCall.untilBefore # NoSuspension
    /\ now < lastCall.untilBefore
    /\ lastCall.countBefore >= max_consecutive_errors
    /\ errFile.suspended_until = NoSuspension

\* C9: isSuspended() answers true exactly when suspendedUntil is present and
\* strictly later than now; it leaves the failure document as it was, and a
\* stored suspendedUntil disappears only in a recordSuccess.
C9_IsSuspendedStrictAndReadOnly ==
    /\ [](lastCall.op = "check_suspension_status" =>
            /\ lastCall.result =
                 (lastCall.untilBefore # NoSuspension /\ now < lastCall.untilBefore)
            /\ errFile.suspended_until = lastCall.untilBefore
            /\ errFile.consecutive_errors = lastCall.countBefore)
    /\ [][(errFile.suspended_until # NoSuspension
           /\ errFile'.suspended_until = NoSuspension) =>
             lastCall'.op = "record_success"]_vars

C9_Witness ==
    /\ lastCall.op = "check_suspension_status"
    /\ lastCall.untilBefore = now
    /\ ~lastCall.result
    /\ errFile.suspended_until = now

\* C10: from fresh state, with a candidate and every step succeeding, the
\* first live invocation of poster.main performs exactly 1 live action and
\* persists 1 for today; an invocation of poster.main that finds 1 stored for
\* today performs nothing and returns 0.
C10_ScenarioA ==
    /\ []((/\ inv.entry = "poster" /\ inv.fresh /\ inv.clean /\ inv.pc = "done"
           /\ ~env.dry_run /\ inv.verdict # "NO_PRODUCTS") =>
             /\ inv.verdict = "LIVE"
             /\ inv.ret = 1
             /\ inv.posted_count = 1
             /\ livePosts[Today(now)] = 1
             /\ stats[Today(now)].present
             /\ stats[Today(now)].posts = 1)
    /\ [][(StartStep("poster") /\ PostsToday >= poster_daily_limit) =>
             /\ inv'.pc = "done"
             /\ inv'.ret = 0
             /\ inv'.posted_count = 0
             /\ inv'.sims = 0
             /\ stats' = stats
             /\ livePosts' = livePosts]_vars

C10_Witness ==
    /\ runs = 2
    /\ inv.entry = "poster"
    /\ inv.verdict = "NO_BUDGET"
    /\ inv.ret = 0
    /\ livePosts[Today(now)] = 1
    /\ stats[Today(now)].posts = 1
    /\ Len(metricsFile.executions) = 1
    /\ metricsFile.executions[1].success
    /\ metricsFile.executions[1].mode = "gradual"

\* currentRate as the specification tabulates it, in percent.
RateOf(consecutiveFailures) ==
    IF consecutiveFailures = 0 THEN 100
    ELSE IF consecutiveFailures <= 2 THEN 80
    ELSE 50

\* C11: with gradual admission on (and DRY_RUN off), an invocation of
\* poster.main that is not suspended and has budget and a candidate gets LIVE
\* iff currentRate >= successThreshold and DRY_RUN_ONLY otherwise; 2
\* consecutive failures give LIVE at threshold 0.8 and DRY_RUN_ONLY at 0.85.
C11_GradualGate ==
    (/\ inv.entry = "poster" /\ env.gradual_mode /\ ~env.dry_run
     /\ inv.verdict \in {"LIVE", "DRY_RUN_ONLY"}) =>
        /\ inv.verdict = "LIVE" <=> RateOf(inv.errsAtCheck) >= env.success_threshold
        /\ inv.verdict = "DRY_RUN_ONLY" <=> RateOf(inv.errsAtCheck) < env.success_threshold
        /\ (inv.errsAtCheck = 2 /\ env.success_threshold = 80) => inv.verdict = "LIVE"
        /\ (inv.errsAtCheck = 2 /\ env.success_threshold = 85) => inv.verdict = "DRY_RUN_ONLY"
        /\ ~inv.suspendedAtCheck /\ inv.remaining > 0

C11_Witness ==
    /\ inv.entry = "poster" /\ env.gradual_mode /\ ~env.dry_run
    /\ inv.errsAtCheck = 2
    /\ env.success_threshold = 85
    /\ inv.verdict = "DRY_RUN_ONLY"

\* C12: an invocation whose verdict is DRY_RUN_ONLY, by the DRY_RUN flag or by
\* the gradual gate, performs no live action and leaves the quota document as
\* it was, while it simulates every candidate it was given.
C12_DryRunLeavesQuota ==
    [][(StartStep("poster") /\ inv'.verdict = "DRY_RUN_ONLY") =>
          /\ stats' = stats
          /\ livePosts' = livePosts
          /\ inv'.pc = "done"
          /\ inv'.sims = inv'.products /\ inv'.sims >= 1]_vars

C12_Witness ==
    /\ inv.verdict = "DRY_RUN_ONLY"
    /\ ~env.dry_run
    /\ inv.sims = 1
    /\ Today(now) = 1
    /\ stats[0].present /\ stats[0].posts = 1
    /\ ~stats[1].present
    /\ livePosts[1] = 0

\* C14: the count persisted for a day is never greater than the number of
\* live actions performed on that day, whether invocations end or are killed.
C14_NeverOverReports ==
    \A d \in Days : stats[d].present => stats[d].posts <= livePosts[d]

\* A step in which the invocation, or the second process, performs a live action.
LiveStep == inv'.posted_count > inv.posted_count

OtherLiveStep == other'.posted_count > other.posted_count

\* C13: after the first action of a batch, no further action of it is
\* performed once the count stored for today has reached the invocation's
\* daily limit, whoever wrote that count.
C13_QuotaRereadBeforeEachAction ==
    [][(LiveStep /\ inv.posted_count >= 1) => PostsToday < inv.daily_limit]_vars

\* C15: every write of the quota stores the writer's own cached base plus its
\* own count, whatever the document holds by then, so with two processes at
\* once a day's live actions can exceed both limits while the document shows
\* fewer.
C15_LastWriterWins ==
    /\ [][LiveStep =>
            /\ stats'[Today(now)].posts = inv.base + inv'.posted_count
            /\ livePosts'[Today(now)] = livePosts[Today(now)] + 1]_vars
    /\ [][OtherLiveStep =>
            /\ stats'[Today(now)].posts = other.base + other'.posted_count
            /\ livePosts'[Today(now)] = livePosts[Today(now)] + 1]_vars

C15_Witness ==
    /\ inv.pc = "posting" /\ other.pc = "posting"
    /\ inv.base = other.base
    /\ inv.daily_limit = poster_daily_limit /\ other.daily_limit = poster_daily_limit
    /\ inv.posted_count = 1 /\ other.posted_count = 1
    /\ livePosts[Today(now)] = 2
    /\ stats[Today(now)].posts = 1

\* C16: an invocation in which the action failed on an item has called
\* recordFailure by its end, and a batch is left only when every item was
\* tried or the daily limit is reached.
C16_ItemFailuresRecorded ==
    /\ []((inv.pc = "done" /\ inv.verdict = "LIVE" /\ inv.i > inv.posted_count) =>
             lastCall.op = "record_error")
    /\ [][(inv.pc = "posting" /\ inv'.pc = "finish") =>
             \/ inv.i >= inv.products
             \/ inv.base + inv.posted_count >= inv.daily_limit]_vars

\* C17: once a read or write of a document has raised in an invocation, no
\* document is modified in it any more and no further live action is
\* performed; the step in which the fault is raised and handled modifies none
\* either.
C17_StoreFaultAborts ==
    /\ [][inv'.storeFault =>
            /\ stats' = stats
            /\ errFile' = errFile
            /\ metricsFile' = metricsFile]_vars
    /\ [][inv.storeFault => livePosts' = livePosts]_vars

\* C18: an invocation of poster.main with a required setting missing returns
\* 0 and leaves the quota, failure and metrics documents as they were.
C18_ConfigurationError ==
    [][(StartStep("poster") /\ inv'.verdict = "CONFIG_ERROR") =>
          /\ inv'.pc = "done"
          /\ inv'.ret = 0
          /\ stats' = stats
          /\ errFile' = errFile
          /\ metricsFile' = metricsFile
          /\ livePosts' = livePosts]_vars

C18_Witness ==
    /\ inv.verdict = "CONFIG_ERROR"
    /\ inv.ret = 0
    /\ errFile.consecutive_errors = 2
    /\ Len(metricsFile.executions) = 2
    /\ lastCall.op = "none"

\* A step in which main()'s except block handles a fault raised after the
\* controller was constructed.
CaughtFaultStep == faults' = faults + 1 /\ inv'.verdict = "ERROR"

ErrorRecord(t) ==
    [timestamp |-> t, success |-> FALSE, posted_count |-> 0, target_count |-> 0,
     mode |-> "error"]

\* C19 as stated: whenever the failure and metrics documents are writable, a
\* caught fault leaves an ExecutionRecord with success = false and
\* mode = error at the end of the metrics log, and 0 is returned.
C19_FaultAlwaysRecorded ==
    (inv.verdict = "ERROR"
     /\ inv.handler \notin {"record_error_failed", "metrics_failed"}) =>
        /\ inv.ret = 0
        /\ Len(metricsFile.executions) >= 1
        /\ metricsFile.executions[Len(metricsFile.executions)] = ErrorRecord(now)

\* C19 amended: a caught fault always ends the invocation with return value
\* 0; exactly one ExecutionRecord with success = false and mode = error is
\* appended when the except block could construct the controller again and
\* both of its writes succeeded, and none is appended otherwise.
C19_FaultRecordedWhenHandlerRuns ==
    [][CaughtFaultStep =>
          /\ inv'.pc = "done"
          /\ inv'.ret = 0
          /\ inv'.handler = "ok" =>
                /\ metricsFile'.executions =
                      Append(metricsFile.executions, ErrorRecord(now))
                /\ errFile'.consecutive_errors = errFile.consecutive_errors + 1
          /\ inv'.handler # "ok" => metricsFile' = metricsFile
          /\ inv'.handler = "init_failed" => errFile' = errFile]_vars

C19_Witness ==
    /\ inv.verdict = "ERROR"
    /\ inv.handler = "ok"
    /\ inv.posted_count = 1
    /\ inv.ret = 0
    /\ Len(metricsFile.executions) = 1
    /\ metricsFile.executions[1] = ErrorRecord(now)

\* C20: the value returned by poster.main is the number of live actions the
\* invocation performed: 0 when suspended, out of budget or after a caught
\* fault, 0 after a dry run, and the number of posts made otherwise.
C20_ReturnIsLiveCount ==
    (inv.entry = "poster" /\ inv.pc = "done") =>
        inv.ret = IF inv.verdict \in {"SUSPENDED", "NO_BUDGET", "ERROR", "CONFIG_ERROR",
                                      "DRY_RUN_ONLY"}
                  THEN 0
                  ELSE inv.posted_count

\* A step in which record_execution_metrics wrote performance_metrics.json.
MetricsAppendStep == metricsFile' # metricsFile

\* C21: the execution log never holds more than 100 entries; each append puts
\* the new record last, and once the log is full each append removes exactly
\* the oldest entry, so that after 101 appends the first record is gone and
\* records 2..101 remain in insertion order.
C21_ExecutionLogCapped ==
    /\ [](Len(metricsFile.executions) <= executions_cap)
    /\ [][MetricsAppendStep =>
            LET old == metricsFile.executions
                new == metricsFile'.executions
                rec == new[Len(new)]
            IN  /\ rec.timestamp = now
                /\ new = IF Len(old) < executions_cap
                         THEN Append(old, rec)
                         ELSE Append(Tail(old), rec)]_vars
    /\ [](runs = executions_cap + 1 =>
            /\ Len(metricsFile.executions) = executions_cap
            /\ \A i \in 1 .. executions_cap :
                  metricsFile.executions[i].timestamp = i * suspension_hours)

C21_Witness ==
    /\ runs = executions_cap + 1
    /\ Len(metricsFile.executions) = executions_cap
    /\ metricsFile.executions[1].timestamp = suspension_hours
    /\ metricsFile.executions[executions_cap].timestamp = executions_cap * suspension_hours

\* C22: last_errors never holds more than 10 entries; entries are kept
\* most-recent-last, and the oldest entry is the one evicted when an eleventh
\* is appended.
C22_RecentErrorsCapped ==
    /\ [](Len(errFile.last_errors) <= last_errors_cap)
    /\ [][RecordErrorStep =>
            LET old == errFile.last_errors
                new == errFile'.last_errors
                rec == new[Len(new)]
            IN  /\ rec.timestamp = now
                /\ new = IF Len(old) < last_errors_cap
                         THEN Append(old, rec)
                         ELSE Append(Tail(old), rec)]_vars
    /\ [](failCalls = last_errors_cap + 1 =>
            /\ Len(errFile.last_errors) = last_errors_cap
            /\ \A i \in 1 .. last_errors_cap :
                  errFile.last_errors[i].timestamp = i * suspension_hours)

C22_Witness ==
    /\ failCalls = last_errors_cap + 1
    /\ errFile.consecutive_errors = last_errors_cap + 1
    /\ Len(errFile.last_errors) = last_errors_cap
    /\ errFile.last_errors[1].timestamp = suspension_hours

\* The log entries inside the window of w days before now, and the rolling
\* rate over them, counted entry by entry.
InWindow(w) ==
    {i \in 1 .. Len(metricsFile.executions) :
        metricsFile.executions[i].timestamp > now - w * HoursPerDay}

RollingRate(w) ==
    IF InWindow(w) = {}
    THEN Divide(1, 1)
    ELSE Divide(Cardinality({i \in InWindow(w) : metricsFile.executions[i].success}),
                Cardinality(InWindow(w)))

SameRate(a, b) == a.d > 0 /\ b.d > 0 /\ a.n * b.d = b.n * a.d

\* C23: the weekly rate of calculate_success_rate is 1.0 when no log entry
\* has a timestamp strictly greater than now - w, and otherwise
\* successful / total over exactly the entries with timestamp > now - w: an
\* entry at exactly now - w is excluded, and entries outside the window do not
\* change the result.
C23_RollingRate ==
    out.op = "calculate_success_rate" =>
        /\ SameRate(out.metrics.weekly_rate, RollingRate(week_days))
        /\ out.metrics.total_executions = Cardinality(InWindow(week_days))
        /\ InWindow(week_days) = {} => out.metrics.weekly_rate = Divide(1, 1)

C23_Witness ==
    /\ out.op = "calculate_success_rate"
    /\ \E i \in 1 .. Len(metricsFile.executions) :
          /\ metricsFile.executions[i].timestamp = now - week_days * HoursPerDay
          /\ metricsFile.executions[i].success
    /\ InWindow(week_days) # {}
    /\ out.metrics.weekly_rate.n = 0

\* The trend the specification derives: the 7-day rolling rate against the
\* 30-day rolling rate, with a margin of 0.1.
ComparedTrend ==
    IF RateAboveBy(RollingRate(week_days), RollingRate(month_days), 10) THEN "improving"
    ELSE IF RateBelowBy(RollingRate(week_days), RollingRate(month_days), 10) THEN "degrading"
    ELSE "stable"

\* C24: the trend placed in the health snapshot is obtained by comparing the
\* 7-day rolling rate with the 30-day rolling rate: improving iff 7-day >
\* 30-day + 0.1, degrading iff 7-day < 30-day - 0.1, stable otherwise.
C24_TrendComparesWindows ==
    out.op = "monitor_system_health" =>
        out.health.performance_summary.trend = ComparedTrend

Rank(status) ==
    CASE status = "healthy" -> 0
      [] status = "warning" -> 1
      [] status = "critical" -> 2
      [] status = "suspended" -> 3

HighAlerts(health, type) ==
    {i \in 1 .. Len(health.alerts) :
        health.alerts[i].type = type /\ health.alerts[i].severity = "high"}

AdmissionVerdict ==
    IF check_suspension_status(errFile, now) THEN "SUSPENDED"
    ELSE IF env.dry_run \/ ~should_allow_posting(errFile, env.gradual_mode, env.success_threshold)
    THEN "DRY_RUN_ONLY"
    ELSE "LIVE"

\* C27: only alerts of severity high are handed to the alert sink, and a
\* failure of the sink (a response other than 201, or an exception) is
\* swallowed: it changes neither the admission verdict, nor the number of
\* actions performed, nor the quota and failure documents.
C27_SinkFailureSwallowed ==
    [][out'.op = "process_health_alerts" =>
          /\ \A i \in 1 .. Len(out'.sent) : out'.sent[i].severity = "high"
          /\ \A i \in 1 .. Len(out'.sent) :
                \A j \in 1 .. Len(out'.health.warnings) :
                    out'.sent[i].type # out'.health.warnings[j].type
          /\ ~out'.raised
          /\ AdmissionVerdict' = AdmissionVerdict
          /\ livePosts' = livePosts
          /\ stats' = stats
          /\ errFile' = errFile]_vars

C27_Witness ==
    /\ out.op = "process_health_alerts"
    /\ out.health.warnings = <<>>
    /\ Len(out.sent) = 2
    /\ out.logged[1] = "GITHUB_ALERT_ERROR"
    /\ AdmissionVerdict = "DRY_RUN_ONLY"

\* C28: generate_performance_report on an absent or empty metrics log returns
\* a report whose period summary is an explicit insufficient-data message,
\* with no rate computed and no division by zero; on a non-empty log whose
\* 7-day or 30-day window is empty it also completes without a division by
\* zero.
C28_ReportWithoutData ==
    out.op = "generate_performance_report" =>
        /\ (~metricsFile.exists \/ metricsFile.executions = <<>>) =>
              /\ out.report.message =
                    IF metricsFile.exists THEN "no_execution_history"
                    ELSE "no_metrics_accumulated"
              /\ ~out.report.has_stats
        /\ (metricsFile.exists /\ metricsFile.executions # <<>>) =>
              /\ out.report.has_stats
              /\ out.report.week_stats.success_rate.d > 0
              /\ out.report.month_stats.success_rate.d > 0
              /\ out.report.week_stats.total = Cardinality(InWindow(week_days))
              /\ out.report.month_stats.total = Cardinality(InWindow(month_days))

C28_Witness ==
    /\ out.op = "generate_performance_report"
    /\ metricsFile.executions # <<>>
    /\ InWindow(month_days) = {}
    /\ out.report.has_stats
    /\ out.report.week_stats.success_rate = Divide(0, 1)

\* C29: the report's recommendations are driven by three independent
\* conditions (week rate < 0.7: inspection; trend degrading: check the site;
\* no execution in the last 7 days: check the settings), the neutral message
\* is emitted iff none of the three holds, and so the recommendation list is
\* never empty.
C29_RecommendationsNeverEmpty ==
    out.op = "generate_performance_report" =>
        LET recs == {out.report.recommendations[i] :
                        i \in 1 .. Len(out.report.recommendations)}
        IN  /\ recs # {}
            /\ InWindow(week_days) = {} => "check_settings" \in recs
            /\ "operating_normally" \in recs <=>
                  recs \cap {"inspect_system", "check_site_changes", "check_settings"} = {}

\* C30: for the same metrics log and the same instant, the report's 7-day
\* rate, 30-day rate and trend equal the rolling rates and the trend that
\* calculate_success_rate derives for the health snapshot: same window
\* filter, same value for an empty window, same classification.
C30_ReportAgreesWithHealth ==
    (out.op = "generate_performance_report" /\ out.report.has_stats) =>
        /\ SameRate(out.report.week_stats.success_rate,
                    calculate_success_rate(errFile, metricsFile, now, week_days).weekly_rate)
        /\ SameRate(out.report.month_stats.success_rate,
                    calculate_success_rate(errFile, metricsFile, now, month_days).weekly_rate)
        /\ out.report.trend =
              monitor_system_health(errFile, metricsFile, now, env.dry_run,
                                    env.gradual_mode).performance_summary.trend

\* The alerts a health check on the documents as they are now would hand over.
AlertsNow == alerts_at_start("poster")

\* C31: within one invocation the admission decision and the actions come
\* first, then the append of the execution record, then the update of the
\* failure and quota documents, and only then the hand-off of the
\* high-severity alerts: the alerts an invocation dispatched reflect the
\* failure state that includes the invocation's own outcome.
C31_AlertsReflectOwnOutcome ==
    (/\ inv.pc = "done"
     /\ inv.entry = "poster"
     /\ inv.verdict \in {"SUSPENDED", "NO_BUDGET", "NO_PRODUCTS", "DRY_RUN_ONLY", "LIVE"})
        => inv.alerts = AlertsNow

\* A suspension was opened, has lapsed, and no success was recorded since.
SuspensionLapsed == errFile.suspended_until # NoSuspension /\ ~SuspensionActive

\* C32: with gradual admission enabled the verdicts of successive invocations
\* move only SUSPENDED -> DRY_RUN_ONLY -> LIVE: the first invocation with
\* remaining budget (and a candidate) after a suspension has lapsed, no success
\* having been recorded in between, gets DRY_RUN_ONLY, never LIVE directly.
C32_VerdictSequence ==
    [][(StartStep("poster") /\ env.gradual_mode) =>
          /\ SuspensionActive => inv'.verdict \in {"SUSPENDED", "ERROR"}
          /\ SuspensionLapsed =>
                /\ inv'.verdict \in {"DRY_RUN_ONLY", "NO_BUDGET", "NO_PRODUCTS", "ERROR"}
                /\ (inv'.verdict \in {"DRY_RUN_ONLY", "LIVE"}
                    /\ remaining_budget(poster_daily_limit, stats, now) > 0)
                      => inv'.verdict = "DRY_RUN_ONLY"
          /\ inv'.verdict = "LIVE" => errFile.suspended_until = NoSuspension]_vars

C32_Witness ==
    /\ env.gradual_mode /\ ~env.dry_run
    /\ inv.entry = "poster"
    /\ inv.verdict = "DRY_RUN_ONLY"
    /\ inv.errsAtCheck >= max_consecutive_errors
    /\ ~inv.suspendedAtCheck
    /\ inv.remaining > 0

\* C33: for every date the count stored for it equals the number of live
\* actions performed on that date, also when the calendar day changes between
\* two actions of one batch: a new day's record never includes actions
\* performed on the day before.
C33_StoredCountIsDaysActions ==
    \A d \in Days :
        (IF stats[d].present THEN stats[d].posts ELSE 0) = livePosts[d]

\* C34: when the system is not suspended and the remaining budget is <= 0,
\* the invocation is a no-op success: it returns 0 without raising, performs
\* no action, and leaves the failure document as it was (the count is not
\* incremented and no suspension is started).
C34_NoBudgetNoOp ==
    [][(/\ StartStep("poster")
        /\ ~check_suspension_status(errFile, now)
        /\ remaining_budget(poster_daily_limit, stats, now) <= 0
        /\ inv'.verdict # "ERROR") =>
          /\ inv'.verdict = "NO_BUDGET"
          /\ inv'.pc = "done"
          /\ inv'.ret = 0
          /\ inv'.handler = "none"
          /\ livePosts' = livePosts
          /\ stats' = stats
          /\ errFile' = errFile]_vars

C34_Witness ==
    /\ inv.entry = "poster"
    /\ inv.verdict = "NO_BUDGET"
    /\ inv.remaining < 0
    /\ inv.ret = 0
    /\ errFile.consecutive_errors >= 1
    /\ errFile.suspended_until = NoSuspension

\* C35: an invocation that finds the system suspended appends exactly one
\* execution record, with mode suspended and success false, and changes
\* nothing else: consecutive_errors, last_errors, suspended_until and today's
\* quota are after it what they were before, so runs during the window never
\* move the end of the suspension.
C35_SuspendedRunOnlyAppends ==
    [][(/\ StartStep("poster")
        /\ check_suspension_status(errFile, now)
        /\ inv'.verdict # "ERROR") =>
          /\ inv'.verdict = "SUSPENDED"
          /\ inv'.pc = "done"
          /\ metricsFile'.executions =
                Append(metricsFile.executions,
                       [timestamp |-> now, success |-> FALSE, posted_count |-> 0,
                        target_count |-> 0, mode |-> "suspended"])
          /\ errFile' = errFile
          /\ stats' = stats
          /\ livePosts' = livePosts]_vars

C35_Witness ==
    /\ inv.entry = "poster"
    /\ inv.verdict = "SUSPENDED"
    /\ SuspensionActive
    /\ errFile.consecutive_errors = max_consecutive_errors
    /\ Len(metricsFile.executions) = 4
    /\ metricsFile.executions[4].mode = "suspended"
    /\ metricsFile.executions[3].mode # "suspended"

GateClosed ==
    env.gradual_mode
    /\ ~should_allow_posting(errFile, env.gradual_mode, env.success_threshold)

\* C38: a DRY_RUN_ONLY invocation with at least one candidate is recorded as
\* a success: it calls record_success, which resets consecutive_errors to 0 and
\* clears suspended_until, although no live action succeeded; so, with gradual
\* admission enabled, two consecutive invocations with candidates are never
\* both sent to dry-run mode by the success-rate gate.
C38_DryRunRecordedAsSuccess ==
    /\ [][(StartStep("poster") /\ inv'.verdict = "DRY_RUN_ONLY") =>
             /\ inv'.sims >= 1
             /\ lastCall'.op = "record_success"
             /\ errFile'.consecutive_errors = 0
             /\ errFile'.suspended_until = NoSuspension
             /\ livePosts' = livePosts
             /\ metricsFile'.executions[Len(metricsFile'.executions)].success
             /\ ~GateClosed']_vars
    /\ [][(GateClosed' /\ ~GateClosed) => RecordErrorStep]_vars
    /\ [][(/\ StartStep("poster")
           /\ inv.entry = "poster" /\ inv.verdict = "DRY_RUN_ONLY" /\ ~env.dry_run) =>
             inv'.verdict # "DRY_RUN_ONLY"]_vars

C38_Witness ==
    /\ inv.entry = "poster"
    /\ inv.verdict = "DRY_RUN_ONLY"
    /\ ~env.dry_run
    /\ inv.errsAtCheck >= 1
    /\ lastCall.op = "record_success"
    /\ lastCall.untilBefore # NoSuspension
    /\ errFile.consecutive_errors = 0
    /\ errFile.suspended_until = NoSuspension
    /\ \A d \in Days : livePosts[d] = 0

\* C39: from any state with an active suspension, if invocations keep being
\* scheduled, candidates are available and no store fault occurs, a LIVE
\* verdict is eventually reached again without manual intervention: the
\* suspension lapses once now >= suspended_until and the failure count is
\* eventually reset.  (Suspensions opened within three runs of the end of the
\* behaviours looked at are left out.)
C39_LiveAgain ==
    \A k \in 0 .. MaxScheduledRuns - 3 :
        [](SuspensionActive /\ runs = k => <>(inv.verdict = "LIVE" /\ runs > k))

C39_Witness ==
    /\ inv.verdict = "LIVE"
    /\ env.gradual_mode
    /\ ~SuspensionActive
    /\ \E i \in 1 .. Len(metricsFile.executions) :
          /\ metricsFile.executions[i].mode = "suspended"
          /\ i + 2 = Len(metricsFile.executions)
          /\ metricsFile.executions[i + 1].success

\* The rows that have a URL in the worksheets that can be read, as products.
UrlProducts ==
    {Product(w, r) : w \in 1 .. MaxWorksheets, r \in 1 .. MaxSheetRows} \cap
    {p \in [sheet_name : 1 .. Len(sh), row : 1 .. MaxSheetRows] :
        /\ sh[p.sheet_name].readable
        /\ p.row <= Len(sh[p.sheet_name].rows)
        /\ sh[p.sheet_name].rows[p.row].url}

\* p comes before q in sheet order.
SheetOrder(p, q) ==
    \/ p.sheet_name < q.sheet_name
    \/ p.sheet_name = q.sheet_name /\ p.row < q.row

\* C40: candidate selection keeps no record of what was published:
\* get_products_to_post returns the first max_count rows that have a URL, in
\* sheet order, whatever was posted before, so a product posted by one
\* invocation is selected and posted again by a later one while the sheet is
\* unchanged; the list never has more than max_count items and is empty when
\* the read of the sheet fails.
C40_SelectionIgnoresHistory ==
    out.op = "get_products_to_post" =>
        LET n == Len(out.products)
            selected == {out.products[i] : i \in 1 .. n}
        IN  /\ n <= out.max_count
            /\ ~out.worksheets_ok => out.products = <<>>
            /\ out.worksheets_ok =>
                  /\ n = Min(Cardinality(UrlProducts), out.max_count)
                  /\ n = get_products_to_post(Cardinality(UrlProducts), out.max_count)
                  /\ selected \subseteq UrlProducts
                  /\ \A i \in 1 .. n - 1 : SheetOrder(out.products[i], out.products[i + 1])
                  /\ \A p \in UrlProducts : \A q \in selected :
                        SheetOrder(p, q) => p \in selected
                  /\ \A p \in out.before :
                        (\E q \in selected : p = q \/ SheetOrder(p, q)) =>
                            /\ p \in selected
                            /\ out.posted # {} => p \in out.posted

C40_Witness ==
    /\ out.op = "get_products_to_post"
    /\ out.max_count = 1
    /\ Cardinality(UrlProducts) >= 2
    /\ Len(out.products) = 1
    /\ out.before = {out.products[1]}
    /\ out.posted = {out.products[1]}

====
